---- MODULE Spec2Model ----
(* A model of one run of main.py: the dynamic-DNS client that resolves the  *)
(* host's public IPv4/IPv6 address and reconciles the A/AAAA record of one  *)
(* hostname in a Cloudflare zone.                                           *)
EXTENDS Integers, Sequences, FiniteSets, TLC

(***************************************************************************)
(* Bounds and value domains                                                *)
(***************************************************************************)
\* largest number of records in the zone when the run starts
MaxZone == 2

None == "None"
Hostname == "home.example.com"
OtherName == "www.example.com"
Types == {"A", "AAAA"}
EnvNames == {"CF_TOKEN", "CF_HOSTNAME", "CF_ZONE-ID"}
\* what os.getenv can give for a variable: unset, set but empty, set
EnvValues == {None, "", "set"}
\* record contents / addresses of each family
Addresses(t) == IF t = "A" THEN {"1.2.3.4", "5.6.7.8"}
                ELSE {"2001:db8::1", "2001:db8::2"}
\* what the echo service can answer with status 200: the host's address
EchoBodies(t) == IF t = "A" THEN {"1.2.3.4", "5.6.7.8"} ELSE {"2001:db8::1"}

Min(S) == CHOOSE x \in S : \A y \in S : x <= y

\* Python truthiness of an optional string (None and "" are falsy)
Truthy(v) == v # None /\ v # ""

(***************************************************************************)
(* The zone held by the provider: a sequence of records, in list order     *)
(***************************************************************************)
\* the records a zone can start with: those of the hostname, and one of
\* another name as a bystander
RecordsAt(i) ==
  {[id |-> i, type |-> t, name |-> Hostname, content |-> c] :
     t \in Types, c \in Addresses("A") \cup Addresses("AAAA")}
  \cup {[id |-> i, type |-> "A", name |-> OtherName, content |-> "9.9.9.9"]}

WellTyped(r) == r.content \in Addresses(r.type) \cup {"9.9.9.9"}

RECURSIVE ZonesOfLen(_)
ZonesOfLen(n) ==
  IF n = 0 THEN {<<>>}
  ELSE {Append(z, r) : z \in ZonesOfLen(n - 1),
                       r \in {x \in RecordsAt(n) : WellTyped(x)}}

InitialZones == UNION {ZonesOfLen(n) : n \in 0..MaxZone}

NoRecord == [id |-> 0, type |-> None, name |-> None, content |-> None]

VARIABLES
  pc,            \* position of main()
  args,          \* parsed flags
  environ,       \* the process environment (after load_dotenv)
  hostname,      \* main's local
  zone_id,       \* main's local
  public_ipv4,   \* main's local
  public_ipv6,   \* main's local
  zone,          \* the provider's records of the zone
  zone0,         \* history: the zone when the run started
  netCalls,      \* history: number of network calls issued so far
  syncCount,     \* history: invocations of sync_dns_record per type
  gateOK,        \* history: per type, resolves in a sync block that gave an address
  gateFail,      \* history: per type, a resolve in a sync block gave none
  errors,        \* history: per type, an error line was logged
  failed,        \* history: per type, a provider call has failed
  callAfterFail, \* history: per type, a sync ran after a provider call had failed
  lastSync       \* history: what the most recent sync_dns_record did

vars == <<pc, args, environ, hostname, zone_id, public_ipv4, public_ipv6,
          zone, zone0, netCalls, syncCount, gateOK, gateFail, errors,
          failed, callAfterFail, lastSync>>

hist == <<zone0, syncCount, gateOK, gateFail, errors, failed, callAfterFail,
          lastSync>>

(***************************************************************************)
(* Resolver                                                                *)
(***************************************************************************)
\* get_public_ip: ok = the GET succeeded with a success status
get_public_ip(ok, body) == IF ok THEN body ELSE None

(***************************************************************************)
(* DNS provider client                                                     *)
(***************************************************************************)
\* a lookup that compares the name only
find_dns_record_m(z, record_type, name, listOK) ==
  IF ~listOK THEN NoRecord
  ELSE LET m == {i \in DOMAIN z : z[i].name = name}
       IN  IF m = {} THEN NoRecord ELSE z[Min(m)]

find_dns_record(z, record_type, name, listOK) ==
  IF ~listOK THEN NoRecord
  ELSE LET m == {i \in DOMAIN z : z[i].type = record_type /\ z[i].name = name}
       IN  IF m = {} THEN NoRecord ELSE z[Min(m)]

\* the request create_dns_record sends
CreateCall(record_type, name, content) ==
  [type |-> record_type, name |-> name, content |-> content,
   ttl |-> 1, proxied |-> FALSE]

\* the request update_dns_record sends
UpdateCall(name, content, record_type, dns_record_id) ==
  [dns_record_id |-> dns_record_id, type |-> record_type, name |-> name,
   content |-> content]

\* the provider creating a record: a fresh identifier, appended to the list
create_dns_record(z, record_type, name, content, ok) ==
  IF ok
  THEN Append(z, [id |-> Len(z) + 1, type |-> record_type, name |-> name,
                  content |-> content])
  ELSE z

\* an update addressed by type and name instead of by identifier
update_dns_record_m(z, name, content, record_type, dns_record_id, ok) ==
  IF ok
  THEN [i \in DOMAIN z |->
          IF z[i].type = record_type /\ z[i].name = name
          THEN [id |-> z[i].id, type |-> record_type, name |-> name,
                content |-> content]
          ELSE z[i]]
  ELSE z

\* the provider overwriting the record with the given identifier
update_dns_record(z, name, content, record_type, dns_record_id, ok) ==
  IF ok
  THEN [i \in DOMAIN z |->
          IF z[i].id = dns_record_id
          THEN [id |-> z[i].id, type |-> record_type, name |-> name,
                content |-> content]
          ELSE z[i]]
  ELSE z

(***************************************************************************)
(* Reconciler                                                              *)
(***************************************************************************)
\* sync_dns_record: listOK / mutOK say whether the list call and the
\* create or update call succeed.  The result gives the zone afterwards and
\* the calls that were issued.
sync_dns_record(z, record_type, name, public_ip, listOK, mutOK) ==
  LET dns_record == find_dns_record(z, record_type, name, listOK)
      listErr == IF listOK THEN 0 ELSE 1
      mutErr == IF mutOK THEN 0 ELSE 1
  IN  IF dns_record # NoRecord
      THEN IF dns_record.content # public_ip
           THEN [zone |-> update_dns_record(z, name, public_ip,
                            dns_record.type, dns_record.id, mutOK),
                 creates |-> <<>>,
                 updates |-> <<UpdateCall(name, public_ip, dns_record.type,
                                          dns_record.id)>>,
                 errors |-> listErr + mutErr]
           ELSE [zone |-> z, creates |-> <<>>, updates |-> <<>>,
                 errors |-> listErr]
      ELSE [zone |-> create_dns_record(z, record_type, name, public_ip, mutOK),
            creates |-> <<CreateCall(record_type, name, public_ip)>>,
            updates |-> <<>>,
            errors |-> listErr + mutErr]

(***************************************************************************)
(* Entry point                                                             *)
(***************************************************************************)
Init ==
  /\ pc = "l164"
  /\ args = [ipv4 |-> FALSE, ipv6 |-> FALSE, both |-> FALSE]
  /\ environ \in {e \in [EnvNames -> EnvValues \cup {Hostname}] :
                     /\ e["CF_HOSTNAME"] \in {None, "", Hostname}
                     /\ e["CF_TOKEN"] \in EnvValues
                     /\ e["CF_ZONE-ID"] \in EnvValues}
  /\ hostname = None
  /\ zone_id = None
  /\ public_ipv4 = None
  /\ public_ipv6 = None
  /\ zone \in InitialZones
  /\ zone0 = zone
  /\ netCalls = 0
  /\ syncCount = [t \in Types |-> 0]
  /\ gateOK = [t \in Types |-> 0]
  /\ gateFail = [t \in Types |-> FALSE]
  /\ errors = [t \in Types |-> FALSE]
  /\ failed = [t \in Types |-> FALSE]
  /\ callAfterFail = [t \in Types |-> FALSE]
  /\ lastSync = [type |-> None, ip |-> None, pre |-> <<>>, post |-> <<>>,
                 listOK |-> TRUE, mutOK |-> TRUE,
                 creates |-> <<>>, updates |-> <<>>]

\* line 184
BothBranch(a) == a.both \/ (~a.ipv4 /\ ~a.ipv6)

\* where main continues after the block of line 184
AfterBoth(a) == IF a.ipv4 THEN "l193" ELSE IF a.ipv6 THEN "l198" ELSE "done"

\* where main continues after the block of line 192
AfterIpv4(a) == IF a.ipv6 THEN "l198" ELSE "done"

\* where main continues after the two lookups of lines 180-181
AfterLookups(a) == IF BothBranch(a) THEN "l185" ELSE AfterBoth(a)

\* the check of CF_TOKEN in get_cloudflare_client
TokenCheck(v) == IF ~Truthy(v) THEN "aborted" ELSE "l170"
\* the check of CF_HOSTNAME
HostnameCheck(v) == IF ~Truthy(v) THEN "aborted" ELSE "l175"
\* main without the check of CF_ZONE-ID
ZoneIdCheck_m(v) == "l180"
\* the check of CF_ZONE-ID
ZoneIdCheck(v) == IF ~Truthy(v) THEN "aborted" ELSE "l180"

parse_args ==
  /\ pc = "l164"
  /\ args' \in [ipv4 : BOOLEAN, ipv6 : BOOLEAN, both : BOOLEAN]
  /\ pc' = "l167"
  /\ UNCHANGED <<environ, hostname, zone_id, public_ipv4, public_ipv6, zone,
                 netCalls>>
  /\ UNCHANGED hist

get_cloudflare_client ==
  /\ pc = "l167"
  /\ pc' = TokenCheck(environ["CF_TOKEN"])
  /\ UNCHANGED <<args, environ, hostname, zone_id, public_ipv4, public_ipv6,
                 zone, netCalls>>
  /\ UNCHANGED hist

getenv_hostname ==
  /\ pc = "l170"
  /\ hostname' = environ["CF_HOSTNAME"]
  /\ pc' = HostnameCheck(hostname')
  /\ UNCHANGED <<args, environ, zone_id, public_ipv4, public_ipv6, zone,
                 netCalls>>
  /\ UNCHANGED hist

getenv_zone_id ==
  /\ pc = "l175"
  /\ zone_id' = environ["CF_ZONE-ID"]
  /\ pc' = ZoneIdCheck(zone_id')
  /\ UNCHANGED <<args, environ, hostname, public_ipv4, public_ipv6, zone,
                 netCalls>>
  /\ UNCHANGED hist

\* a get_public_ip(4) call at position at, continuing at next; gate says
\* whether its result decides on a sync
Resolve4(at, next, gate) ==
  /\ pc = at
  /\ \E ok \in BOOLEAN, body \in EchoBodies("A") :
       /\ public_ipv4' = get_public_ip(ok, body)
       /\ errors' = [errors EXCEPT !["A"] = @ \/ ~ok]
  /\ gateOK' = IF gate /\ Truthy(public_ipv4')
               THEN [gateOK EXCEPT !["A"] = @ + 1] ELSE gateOK
  /\ gateFail' = [gateFail EXCEPT !["A"] = @ \/ (gate /\ public_ipv4' = None)]
  /\ netCalls' = netCalls + 1
  /\ pc' = next
  /\ UNCHANGED <<args, environ, hostname, zone_id, public_ipv6, zone, zone0,
                 syncCount, failed, callAfterFail, lastSync>>

Resolve6(at, next, gate) ==
  /\ pc = at
  /\ \E ok \in BOOLEAN, body \in EchoBodies("AAAA") :
       /\ public_ipv6' = get_public_ip(ok, body)
       /\ errors' = [errors EXCEPT !["AAAA"] = @ \/ ~ok]
  /\ gateOK' = IF gate /\ Truthy(public_ipv6')
               THEN [gateOK EXCEPT !["AAAA"] = @ + 1] ELSE gateOK
  /\ gateFail' =
       [gateFail EXCEPT !["AAAA"] = @ \/ (gate /\ public_ipv6' = None)]
  /\ netCalls' = netCalls + 1
  /\ pc' = next
  /\ UNCHANGED <<args, environ, hostname, zone_id, public_ipv4, zone, zone0,
                 syncCount, failed, callAfterFail, lastSync>>

\* "if public_ip: sync_dns_record(cf, zone_id, t, hostname, public_ip)" at
\* position at, continuing at next
SyncIf(at, next, t, public_ip) ==
  /\ pc = at
  /\ pc' = next
  /\ IF Truthy(public_ip)
     THEN \E listOK \in BOOLEAN, mutOK \in BOOLEAN :
            LET r == sync_dns_record(zone, t, hostname, public_ip, listOK, mutOK)
                muts == Len(r.creates) + Len(r.updates)
                n == 1 + muts
                fails == ~listOK \/ (muts > 0 /\ ~mutOK)
            IN  /\ zone' = r.zone
                /\ netCalls' = netCalls + n
                /\ syncCount' = [syncCount EXCEPT ![t] = @ + 1]
                /\ errors' = [errors EXCEPT ![t] = @ \/ r.errors > 0]
                /\ failed' = [failed EXCEPT ![t] = @ \/ fails]
                /\ callAfterFail' =
                     [callAfterFail EXCEPT ![t] = @ \/ failed[t]]
                /\ lastSync' = [type |-> t, ip |-> public_ip, pre |-> zone,
                                post |-> r.zone, listOK |-> listOK,
                                mutOK |-> mutOK,
                                creates |-> r.creates, updates |-> r.updates]
     ELSE UNCHANGED <<zone, netCalls, syncCount, errors, failed,
                      callAfterFail, lastSync>>
  /\ UNCHANGED <<args, environ, hostname, zone_id, public_ipv4, public_ipv6,
                 zone0, gateOK, gateFail>>

\* line 180
lookup4 == Resolve4("l180", "l181", FALSE)
\* line 181 and the test of line 184
lookup6 == Resolve6("l181", AfterLookups(args), FALSE)
\* line 185
both_resolve4 == Resolve4("l185", "l186", TRUE)
\* line 186
both_resolve6 == Resolve6("l186", "l187", TRUE)
\* lines 187-188
both_sync_A == SyncIf("l187", "l189", "A", public_ipv4)
\* the AAAA step written as depending on the outcome of the A step
both_sync_AAAA_m ==
  SyncIf("l189", AfterBoth(args), "AAAA",
         IF failed["A"] THEN None ELSE public_ipv6)
\* lines 189-190 and the test of line 192
both_sync_AAAA == SyncIf("l189", AfterBoth(args), "AAAA", public_ipv6)
\* line 193
ipv4_resolve == Resolve4("l193", "l194", TRUE)
\* lines 194-195 and the test of line 197
ipv4_sync == SyncIf("l194", AfterIpv4(args), "A", public_ipv4)
\* line 198
ipv6_resolve == Resolve6("l198", "l199", TRUE)
\* lines 199-200
ipv6_sync == SyncIf("l199", "done", "AAAA", public_ipv6)

Next ==
  \/ parse_args
  \/ get_cloudflare_client
  \/ getenv_hostname
  \/ getenv_zone_id
  \/ lookup4
  \/ lookup6
  \/ both_resolve4
  \/ both_resolve6
  \/ both_sync_A
  \/ both_sync_AAAA
  \/ ipv4_resolve
  \/ ipv4_sync
  \/ ipv6_resolve
  \/ ipv6_sync

Spec == Init /\ [][Next]_vars

\* every call of the sequential program returns
FairSpec == Spec /\ WF_vars(Next)

(***************************************************************************)
(* Vocabulary of the properties                                            *)
(***************************************************************************)
\* positions of the records of type t and name n in zone z
Matching(z, t, n) == {i \in DOMAIN z : z[i].type = t /\ z[i].name = n}

\* the flags ask for the family of record type t
Selected(t) ==
  \/ args.both
  \/ ~args.ipv4 /\ ~args.ipv6
  \/ t = "A" /\ args.ipv4
  \/ t = "AAAA" /\ args.ipv6

ConfigPresent == \A k \in EnvNames : environ[k] \notin {None, ""}

\* the most recently resolved address of the family of type t
Resolved(t) == IF t = "A" THEN public_ipv4 ELSE public_ipv6

\* a sync_dns_record has run
Synced == lastSync.type # None

PreMatches == Matching(lastSync.pre, lastSync.type, Hostname)

\* the existing matching record of that sync: the first one listed
PreRecord == lastSync.pre[Min(PreMatches)]

(***************************************************************************)
(* C1: when the run ends, for every requested family either the zone holds *)
(* exactly one record of the family's type for the hostname, whose content *)
(* is the freshly resolved address, or the records of that type and        *)
(* hostname are as before the run and an error was logged.                 *)
(***************************************************************************)
C1_ReconciledOrUntouched ==
  pc = "done" =>
    \A t \in Types :
      Selected(t) =>
        \/ /\ Cardinality(Matching(zone, t, Hostname)) = 1
           /\ \A i \in Matching(zone, t, Hostname) :
                zone[i].content = Resolved(t)
        \/ /\ Matching(zone, t, Hostname) = Matching(zone0, t, Hostname)
           /\ \A i \in Matching(zone0, t, Hostname) : zone[i] = zone0[i]
           /\ errors[t]

(***************************************************************************)
(* C2: a sync that starts with a matching record (the first listed, when   *)
(* there are several) whose content differs from the desired address       *)
(* issues exactly one update call, with the identifier of that record and  *)
(* the desired address, and no create call.                                *)
(***************************************************************************)
C2_UpdateWhenDifferent ==
  (Synced /\ PreMatches # {} /\ PreRecord.content # lastSync.ip) =>
    /\ Len(lastSync.updates) = 1
    /\ lastSync.updates[1].dns_record_id = PreRecord.id
    /\ lastSync.updates[1].content = lastSync.ip
    /\ lastSync.creates = <<>>

(***************************************************************************)
(* C3: a sync that starts with a matching record (the first listed, when   *)
(* there are several) whose content equals the desired address issues no   *)
(* create and no update call and leaves the zone unchanged.                *)
(***************************************************************************)
C3_NoopWhenEqual ==
  (Synced /\ PreMatches # {} /\ PreRecord.content = lastSync.ip) =>
    /\ lastSync.creates = <<>>
    /\ lastSync.updates = <<>>
    /\ lastSync.post = lastSync.pre

(***************************************************************************)
(* C4: a sync that starts with no record matching (type, hostname) issues  *)
(* exactly one create call, with that type, the hostname and the desired   *)
(* address, and no update call.                                            *)
(***************************************************************************)
C4_CreateWhenMissing ==
  (Synced /\ PreMatches = {}) =>
    /\ Len(lastSync.creates) = 1
    /\ lastSync.creates[1].type = lastSync.type
    /\ lastSync.creates[1].name = Hostname
    /\ lastSync.creates[1].content = lastSync.ip
    /\ lastSync.updates = <<>>

\* a sync found other records but none of its type and name, and created one
C4_Witness ==
  /\ Synced
  /\ PreMatches = {}
  /\ lastSync.pre # <<>>
  /\ lastSync.listOK /\ lastSync.mutOK
  /\ Len(lastSync.post) = Len(lastSync.pre) + 1
  /\ lastSync.post[Len(lastSync.post)].content = lastSync.ip

(***************************************************************************)
(* C5: a sync whose list call fails issues no create and no update call    *)
(* and leaves the zone unchanged.                                          *)
(***************************************************************************)
C5_ListFailureSkips ==
  (Synced /\ ~lastSync.listOK) =>
    /\ lastSync.creates = <<>>
    /\ lastSync.updates = <<>>
    /\ lastSync.post = lastSync.pre

(***************************************************************************)
(* C6: if resolving a family's address fails, the reconciler is never      *)
(* invoked for that family in that run.                                    *)
(***************************************************************************)
C6_FailedResolveNoSync ==
  \A t \in Types : gateFail[t] => syncCount[t] = 0

(***************************************************************************)
(* C7: if a required environment variable is absent or empty, no network   *)
(* call is ever made and the run does not get past the configuration       *)
(* checks.                                                                 *)
(***************************************************************************)
C7_AbortBeforeNetwork ==
  ~ConfigPresent =>
    /\ netCalls = 0
    /\ pc \in {"l164", "l167", "l170", "l175", "aborted"}

\* the run aborted on the last of the three checks
C7_Witness ==
  /\ pc = "aborted"
  /\ environ["CF_TOKEN"] = "set"
  /\ environ["CF_HOSTNAME"] = Hostname
  /\ environ["CF_ZONE-ID"] \in {None, ""}
  /\ netCalls = 0

(***************************************************************************)
(* C8: a run invokes the reconciler at most once per record type, so no    *)
(* sync of a type runs after a provider call of that type has failed.      *)
(***************************************************************************)
C8_OncePerFamily ==
  \A t \in Types : syncCount[t] <= 1 /\ ~callAfterFail[t]

(***************************************************************************)
(* C9: in a run with the configuration present and both families          *)
(* selected, every resolve of a sync block that gives an address is        *)
(* followed by a reconciler invocation for that family, whatever failed    *)
(* for the other family, and the run reaches its end.                      *)
(***************************************************************************)
BothSelected == Selected("A") /\ Selected("AAAA")

C9_Safe ==
  (ConfigPresent /\ BothSelected) =>
    /\ pc # "aborted"
    /\ pc = "done" => \A t \in Types : syncCount[t] = gateOK[t]

C9_FamiliesIndependent ==
  /\ []C9_Safe
  /\ (pc = "l167" /\ ConfigPresent /\ BothSelected) ~> (pc = "done")

\* a run ended in which a provider call for A failed and AAAA was reconciled
C9_Witness ==
  /\ pc = "done"
  /\ ConfigPresent /\ BothSelected
  /\ failed["A"]
  /\ syncCount["AAAA"] >= 1
  /\ \E i \in Matching(zone, "AAAA", Hostname) :
       zone[i].content = public_ipv6

(***************************************************************************)
(* C10: every record of the zone at the start of the run is still there,   *)
(* and a record can differ from what it was only if it is the first listed *)
(* record of a selected family's type for the hostname, and then only in   *)
(* its content.                                                            *)
(***************************************************************************)
C10_OnlyFirstManagedChanges ==
  \A i \in DOMAIN zone0 :
    /\ \E j \in DOMAIN zone :
         /\ zone[j].id = zone0[i].id
         /\ zone[j].type = zone0[i].type
         /\ zone[j].name = zone0[i].name
         /\ zone[j] # zone0[i] =>
              /\ zone0[i].name = Hostname
              /\ Selected(zone0[i].type)
              /\ i = Min(Matching(zone0, zone0[i].type, Hostname))
    /\ Cardinality({j \in DOMAIN zone : zone[j].id = zone0[i].id}) = 1

\* the run ended with two A records of the hostname, the first one changed
C10_Witness ==
  /\ pc = "done"
  /\ Cardinality(Matching(zone0, "A", Hostname)) = 2
  /\ zone[1].content # zone0[1].content
  /\ zone[2] = zone0[2]

====
